---- MODULE Spec2Model ----
(***************************************************************************)
(* Model of the dependency resolver of gulp-boilerplate                    *)
(* (src/lib/dependencies.js) and of the file system it reads.              *)
(*                                                                         *)
(* A string (a file content, a reference, a path) is a sequence of atoms:  *)
(* an atom is a punctuation character ("/", ".", "_", "'", ";", ...), a    *)
(* white-space character (" ", "\n") or a run of letters taken as one      *)
(* character ("import", "util", "js").  String operations of the program   *)
(* (concatenation, regular-expression matching, node's path functions)     *)
(* are computed on these sequences.                                        *)
(***************************************************************************)
EXTENDS Naturals, Sequences, FiniteSets, TLC

(***************************************************************************)
(* Atoms and elementary string functions                                   *)
(***************************************************************************)
SQ == "'"
DQ == "\""
NL == "\n"
SP == " "
SLASH == "/"
DOT == "."
SEMI == ";"
US == "_"

\* \s of the regular expressions
IsSpace(a) == a \in {SP, NL}

\* [\w\-] of the partial-name resolver: letters, digits, "_" and "-"
IsWordAtom(a) == a \notin {SQ, DQ, NL, SP, SLASH, DOT, SEMI, "(", ")", "@", ","}

Min(S) == CHOOSE x \in S : \A y \in S : x <= y
Max(S) == CHOOSE x \in S : \A y \in S : x >= y

\* the atom of string s at index i, or "" beyond the string
At(s, i) == IF i \in 1..Len(s) THEN s[i] ELSE ""

\* index of the last occurrence of atom a in s, 0 if none
LastIndexOf(s, a) ==
  LET I == {i \in 1..Len(s) : s[i] = a} IN IF I = {} THEN 0 ELSE Max(I)

\* index of the first occurrence of atom a in s at or after from, 0 if none
IndexOfFrom(s, a, from) ==
  LET I == {i \in from..Len(s) : s[i] = a} IN IF I = {} THEN 0 ELSE Min(I)

(***************************************************************************)
(* node's path module (POSIX), as used by the resolver                     *)
(***************************************************************************)
RECURSIVE SplitFrom(_, _)
\* the "/"-separated segments of s from index i on
SplitFrom(s, i) ==
  IF i > Len(s) + 1 THEN <<>>
  ELSE LET j == IndexOfFrom(s, SLASH, i)
           e == IF j = 0 THEN Len(s) + 1 ELSE j
       IN  <<SubSeq(s, i, e - 1)>> \o SplitFrom(s, e + 1)

RECURSIVE NormalizeSegments(_, _)
\* drop "" and "." segments, let ".." drop the segment before it
NormalizeSegments(segs, acc) ==
  IF segs = <<>> THEN acc
  ELSE LET h == Head(segs) IN
       IF h = <<>> \/ h = <<DOT>> THEN NormalizeSegments(Tail(segs), acc)
       ELSE IF h = <<DOT, DOT>>
            THEN NormalizeSegments(Tail(segs),
                   IF acc = <<>> THEN acc ELSE SubSeq(acc, 1, Len(acc) - 1))
            ELSE NormalizeSegments(Tail(segs), Append(acc, h))

RECURSIVE JoinSegments(_)
JoinSegments(segs) ==
  IF segs = <<>> THEN <<>> ELSE <<SLASH>> \o Head(segs) \o JoinSegments(Tail(segs))

\* an absolute path in normal form
NormalizeAbsolute(p) ==
  LET segs == NormalizeSegments(SplitFrom(p, 1), <<>>)
  IN  IF segs = <<>> THEN <<SLASH>> ELSE JoinSegments(segs)

\* path.resolve( directory, dep ) with an absolute directory
PathResolve(directory, dep) ==
  IF At(dep, 1) = SLASH THEN NormalizeAbsolute(dep)
  ELSE NormalizeAbsolute(directory \o <<SLASH>> \o dep)

\* path.join( filename, name ) with an absolute filename
PathJoin(filename, name) == NormalizeAbsolute(filename \o <<SLASH>> \o name)

\* path.dirname( filename ) of an absolute path in normal form
PathDirname(filename) ==
  LET i == LastIndexOf(filename, SLASH)
  IN  IF i <= 1 THEN <<SLASH>> ELSE SubSeq(filename, 1, i - 1)

\* path.basename( filename )
PathBasename(filename) ==
  SubSeq(filename, LastIndexOf(filename, SLASH) + 1, Len(filename))

\* path.extname( filename ): from the last "." of the base name on, "" when
\* there is none or when the base name starts with it
PathExtname(filename) ==
  LET b == PathBasename(filename)
      i == LastIndexOf(b, DOT)
  IN  IF i <= 1 THEN <<>> ELSE SubSeq(b, i, Len(b))

(***************************************************************************)
(* The regular expressions of defaultSearchConfig.  A match is a record    *)
(* [groups, end]: the capture groups 1..N (a group that took no part in    *)
(* the match is the empty string, falsy like JavaScript's undefined) and   *)
(* the index of the last atom the match consumed (lastIndex).              *)
(***************************************************************************)
NoMatch == [groups |-> <<>>, end |-> 0]

\* index of the first atom at or after i that is not white space
SkipSpaces(s, i) ==
  LET I == {j \in i..Len(s) : ~IsSpace(s[j])} IN IF I = {} THEN Len(s) + 1 ELSE Min(I)

\* "[^"]+" or '[^']+' starting at q: the index of the closing quote, 0 if none
QuotedEnd(s, q) ==
  IF At(s, q) \notin {SQ, DQ} THEN 0
  ELSE LET e == IndexOfFrom(s, s[q], q + 1) IN IF e >= q + 2 THEN e ELSE 0

\* "\.[^"]+" or '\.[^']+' starting at q: the index of the closing quote, 0 if none
DotQuotedEnd(s, q) ==
  LET e == QuotedEnd(s, q) IN IF e >= q + 3 /\ At(s, q + 1) = DOT THEN e ELSE 0

\* (?:^|[\r\n]) at s: the index of the atom after it, 0 if it does not match.
\* first is what must follow
AfterLineStart(s, i, first) ==
  IF i = 1 /\ At(s, 1) \in first THEN 1
  ELSE IF At(s, i) = NL /\ At(s, i + 1) \in first THEN i + 1
  ELSE 0

\* (?:^|[^\/]) at s followed by "@": the index of the "@", 0 if no match
AfterNonSlash(s, i) ==
  IF i = 1 /\ At(s, 1) = "@" THEN 1
  ELSE IF i <= Len(s) /\ At(s, i) # SLASH /\ At(s, i + 1) = "@" THEN i + 1
  ELSE 0

\* /(?:^|[\r\n])(?:import|export)\s+[\s\S]*?("(?:\.[^"]+)"|'(?:\.[^']+)');/
\* tried at index i
JsStatementAt(s, i) ==
  LET k == AfterLineStart(s, i, {"import", "export"})
      Q == {q \in (k + 2)..Len(s) : DotQuotedEnd(s, q) # 0
                                    /\ At(s, DotQuotedEnd(s, q) + 1) = SEMI}
  IN  IF k = 0 \/ ~IsSpace(At(s, k + 1)) \/ Q = {} THEN NoMatch
      ELSE LET q == Min(Q)
               e == DotQuotedEnd(s, q)
           IN  [groups |-> <<SubSeq(s, q, e)>>, end |-> e + 1]

\* /"([^"]+)"|'([^']+)'/ tried at index i
JsUnwrapAt(s, i) ==
  LET e == QuotedEnd(s, i)
      inner == SubSeq(s, i + 1, e - 1)
  IN  IF e = 0 THEN NoMatch
      ELSE IF s[i] = DQ THEN [groups |-> <<inner, <<>>>>, end |-> e]
      ELSE [groups |-> <<<<>>, inner>>, end |-> e]

\* (?:^|[\r\n])@(?:use|forward)\s+("(?:[^"]+)"|'(?:[^']+)') tried at index i
ScssUseAt(s, i) ==
  LET k == AfterLineStart(s, i, {"@"})
      q == SkipSpaces(s, k + 2)
      e == QuotedEnd(s, q)
  IN  IF k = 0 \/ At(s, k + 1) \notin {"use", "forward"}
         \/ ~IsSpace(At(s, k + 2)) \/ e = 0
      THEN NoMatch
      ELSE [groups |-> <<SubSeq(s, q, e), <<>>, <<>>>>, end |-> e]

\* (?:^|[^\/])@import\s+("(?:[^"]+)"|'(?:[^']+)'); tried at index i
ScssImportAt(s, i) ==
  LET k == AfterNonSlash(s, i)
      q == SkipSpaces(s, k + 2)
      e == QuotedEnd(s, q)
  IN  IF k = 0 \/ At(s, k + 1) # "import"
         \/ ~IsSpace(At(s, k + 2)) \/ e = 0 \/ At(s, e + 1) # SEMI
      THEN NoMatch
      ELSE [groups |-> <<<<>>, SubSeq(s, q, e), <<>>>>, end |-> e + 1]

\* (?:^|[^\/])@include\s+(?:meta\.)?load-css\(\s*("(?:[^"]+)"|'(?:[^']+)')\s*\)
\* tried at index i
ScssLoadCssAt(s, i) ==
  LET k == AfterNonSlash(s, i)
      n == SkipSpaces(s, k + 2)
      l == IF At(s, n) = "meta" /\ At(s, n + 1) = DOT THEN n + 2 ELSE n
      q == SkipSpaces(s, l + 2)
      e == QuotedEnd(s, q)
      c == SkipSpaces(s, e + 1)
  IN  IF k = 0 \/ At(s, k + 1) # "include" \/ ~IsSpace(At(s, k + 2))
         \/ At(s, l) # "load-css" \/ At(s, l + 1) # "(" \/ e = 0 \/ At(s, c) # ")"
      THEN NoMatch
      ELSE [groups |-> <<<<>>, <<>>, SubSeq(s, q, e)>>, end |-> c]

\* the first pattern of the '.scss' parsers tried at index i: its three
\* alternatives in order
ScssStatementAt(s, i) ==
  IF ScssUseAt(s, i) # NoMatch THEN ScssUseAt(s, i)
  ELSE IF ScssImportAt(s, i) # NoMatch THEN ScssImportAt(s, i)
  ELSE ScssLoadCssAt(s, i)

\* url\((?:"([^"]+)"|'([^']+)'|([^)]+))\) tried at index i
ScssUrlAt(s, i) ==
  LET e == QuotedEnd(s, i + 2)
      c == IndexOfFrom(s, ")", i + 2)
  IN  IF At(s, i) # "url" \/ At(s, i + 1) # "(" THEN NoMatch
      ELSE IF e # 0 /\ At(s, e + 1) = ")"
           THEN IF s[i + 2] = DQ
                THEN [groups |-> <<<<>>, <<>>, SubSeq(s, i + 3, e - 1), <<>>, <<>>>>,
                      end |-> e + 1]
                ELSE [groups |-> <<<<>>, <<>>, <<>>, SubSeq(s, i + 3, e - 1), <<>>>>,
                      end |-> e + 1]
           ELSE IF c >= i + 3
                THEN [groups |-> <<<<>>, <<>>, <<>>, <<>>, SubSeq(s, i + 2, c - 1)>>,
                      end |-> c]
                ELSE NoMatch

\* /"([^"]+)"|'([^']+)'|url\((?:"([^"]+)"|'([^']+)'|([^)]+))\)/ tried at index i
ScssUnwrapAt(s, i) ==
  LET e == QuotedEnd(s, i)
      inner == SubSeq(s, i + 1, e - 1)
  IN  IF e # 0
      THEN IF s[i] = DQ
           THEN [groups |-> <<inner, <<>>, <<>>, <<>>, <<>>>>, end |-> e]
           ELSE [groups |-> <<<<>>, inner, <<>>, <<>>, <<>>>>, end |-> e]
      ELSE ScssUrlAt(s, i)

\* the patterns, by name
JsStatement == "jsStatement"
JsUnwrap == "jsUnwrap"
ScssStatement == "scssStatement"
ScssUnwrap == "scssUnwrap"

PatternAt(parser, s, i) ==
  CASE parser = JsStatement -> JsStatementAt(s, i)
    [] parser = JsUnwrap -> JsUnwrapAt(s, i)
    [] parser = ScssStatement -> ScssStatementAt(s, i)
    [] parser = ScssUnwrap -> ScssUnwrapAt(s, i)

\* parser.exec( input ) of a global pattern whose lastIndex is from - 1: the
\* match at the leftmost index at or after from, or NoMatch
PatternExec(parser, s, from) ==
  LET I == {i \in from..Len(s) : PatternAt(parser, s, i) # NoMatch}
  IN  IF I = {} THEN NoMatch ELSE PatternAt(parser, s, Min(I))

(***************************************************************************)
(* The search configuration                                                *)
(***************************************************************************)
\* the resolver steps, by name
AppendJs == "appendJs"
AppendMjs == "appendMjs"
AppendScss == "appendScss"
ScssPartial == "scssPartial"
ScssIndex == "scssIndex"

\* filename.replace( /([\w\-]+)$/, '_$1.scss' )
ReplacePartial(filename) ==
  LET N == {i \in 1..Len(filename) : ~IsWordAtom(filename[i])}
      b == IF N = {} THEN 1 ELSE Max(N) + 1
  IN  IF b > Len(filename) THEN filename
      ELSE SubSeq(filename, 1, b - 1) \o <<US>> \o SubSeq(filename, b, Len(filename))
           \o <<DOT, "scss">>

\* resolver( input )
CallResolver(resolver, filename) ==
  CASE resolver = AppendJs -> filename \o <<DOT, "js">>
    [] resolver = AppendMjs -> filename \o <<DOT, "mjs">>
    [] resolver = AppendScss -> filename \o <<DOT, "scss">>
    [] resolver = ScssPartial -> ReplacePartial(filename)
    [] resolver = ScssIndex -> PathJoin(filename, <<US, "index", DOT, "scss">>)

jsSearchConfig ==
  [parsers |-> <<JsStatement, JsUnwrap>>, resolvers |-> <<AppendJs, AppendMjs>>]

scssSearchConfig ==
  [parsers |-> <<ScssStatement, ScssUnwrap>>,
   resolvers |-> <<AppendScss, ScssPartial, ScssIndex>>]

defaultSearchConfig ==
  (<<DOT, "js">> :> jsSearchConfig) @@ (<<DOT, "mjs">> :> jsSearchConfig)
    @@ (<<DOT, "scss">> :> scssSearchConfig)

\* searchConfig[ ext ] || {} with the defaults parsers = [], resolvers = []
LanguageConfig(searchConfig, ext) ==
  IF ext \in DOMAIN searchConfig THEN searchConfig[ext]
  ELSE [parsers |-> <<>>, resolvers |-> <<>>]

(***************************************************************************)
(* Extraction                                                              *)
(***************************************************************************)
\* every group of a match, the empty ones and those that did not take part
\* included
AllGroups(groups) == groups

\* the groups of a match that are truthy, in order
TruthyGroups(groups) == SelectSeq(groups, LAMBDA g : g # <<>>)

RECURSIVE ExecLoop(_, _, _, _)
\* the do .. while loop over parser.exec( input )
ExecLoop(parser, input, from, results) ==
  LET match == PatternExec(parser, input, from)
  IN  IF match = NoMatch THEN results
      ELSE ExecLoop(parser, input, match.end + 1, results \o TruthyGroups(match.groups))

\* a parser that is a function, by name: a searchConfig given by the caller
\* may hold such parsers, defaultSearchConfig holds none.  KeepRelative
\* returns its input unless it starts with "/", and false (the empty string)
\* then
KeepRelative == "keepRelative"

\* parser instanceof Function
IsFunction(parser) == parser \in {KeepRelative}

\* parser( input )
CallParser(parser, input) ==
  CASE parser = KeepRelative -> IF At(input, 1) = SLASH THEN <<>> ELSE input

\* the results after one input went through the parser
ParseInput(parser, input, results) ==
  IF IsFunction(parser)
  THEN IF CallParser(parser, input) # <<>>
       THEN Append(results, CallParser(parser, input))
       ELSE results
  ELSE ExecLoop(parser, input, 1, results)

RECURSIVE findDependencyReferencesFrom(_, _, _, _)
\* the loop over the inputs, from the i-th on
findDependencyReferencesFrom(inputs, parser, i, results) ==
  IF i > Len(inputs) THEN results
  ELSE findDependencyReferencesFrom(inputs, parser, i + 1,
                                    ParseInput(parser, inputs[i], results))

findDependencyReferences(inputs, parser) ==
  findDependencyReferencesFrom(inputs, parser, 1, <<>>)

RECURSIVE RunParsers(_, _, _)
\* the loop over the parsers, from the i-th on
RunParsers(dependencies, parsers, i) ==
  IF i > Len(parsers) THEN dependencies
  ELSE RunParsers(findDependencyReferences(dependencies, parsers[i]), parsers, i + 1)

\* the reference list computed on a miss of dependencyCache
ExtractDependencies(content, parsers) == RunParsers(<<content>>, parsers, 1)

(***************************************************************************)
(* The file system: a function from paths to entries.  A path outside its  *)
(* domain, or one of kind "none", does not exist.                          *)
(***************************************************************************)
Exists(fsys, p) == p \in DOMAIN fsys /\ fsys[p].kind # "none"

\* fs.existsSync( p ) && fs.statSync( p ).isFile()
IsFile(fsys, p) == p \in DOMAIN fsys /\ fsys[p].kind = "file"

RECURSIVE FirstResolved(_, _, _, _)
\* the loop over the resolvers, from the i-th on; FALSE is the empty string
FirstResolved(fsys, input, resolvers, i) ==
  IF i > Len(resolvers) THEN <<>>
  ELSE LET resolvedPath == CallResolver(resolvers[i], input)
       IN  IF IsFile(fsys, resolvedPath) THEN resolvedPath
           ELSE FirstResolved(fsys, input, resolvers, i + 1)

resolveDependencyReference(fsys, input, resolvers) ==
  IF IsFile(fsys, input) THEN input ELSE FirstResolved(fsys, input, resolvers, 1)

(***************************************************************************)
(* getDependencies.  The two cache tables are module-level objects: they   *)
(* are threaded through the recursion in a record                          *)
(*   [err, results, dependencyCache, resolverCache, reads, trace]          *)
(* err is "" on a normal return and the name of the error thrown           *)
(* otherwise, results is the returned Set.  reads (the files read with     *)
(* readFileSync) and trace (one entry per reference processed: the file    *)
(* it was found in, the reference, its candidate path, the path it         *)
(* resolved to or "" if none)                                              *)
(* observe the call and have no effect on it.                              *)
(***************************************************************************)
\* the depth of the call stack at which a further call throws RangeError.
\* No chain of references through distinct files of the model is that long:
\* a deeper stack holds a call on a file that is on it already
MaxStack == 5

\* statSync skipped for a file whose extension has no configuration
StatThrowsIfConfigured(fsys, filename) ==
  ~Exists(fsys, filename) /\ PathExtname(filename) \in DOMAIN defaultSearchConfig

\* fs.statSync( filename ) throws: there is nothing at the path
StatThrows(fsys, filename) == ~Exists(fsys, filename)

\* an empty reference list taken for a miss
DependencyCacheHitIfNonEmpty(dc, cacheKey) ==
  cacheKey \in DOMAIN dc /\ dc[cacheKey] # <<>>

\* ! dependencies is false: the key is in the table.  An empty list is an
\* object, hence truthy
DependencyCacheHit(dc, cacheKey) == cacheKey \in DOMAIN dc

\* ! dependency is false: the candidate is in the table
ResolverCacheHit(rc, depPath) == depPath \in DOMAIN rc

\* the error caught where it is thrown, and an empty Set returned
Swallow(st, error) == [st EXCEPT !.results = {}]

\* throw: the call, and every call above it on the stack, ends with the error
Throw(st, error) == [st EXCEPT !.err = error, !.results = {}]

\* the path a reference resolves to: the cached one, else a fresh resolution
Dependency(fsys, rc, depPath, resolvers) ==
  IF ResolverCacheHit(rc, depPath) THEN rc[depPath]
  ELSE resolveDependencyReference(fsys, depPath, resolvers)

\* results.add( dependency ) and the union with the child's results
AddResults(results, dependency, childResults) ==
  results \cup {dependency} \cup childResults

\* the record after resolverCache[ depPath ] = dependency, which is reached on
\* a miss only
Cached(st, depPath, dependency) ==
  [st EXCEPT !.resolverCache =
     IF ResolverCacheHit(@, depPath) THEN @ ELSE (depPath :> dependency) @@ @]

\* the record after one more reference was looked at (an observation)
Traced(st, filename, dep, depPath, dependency) ==
  [st EXCEPT !.trace =
     @ \cup {[file |-> filename, dep |-> dep, depPath |-> depPath,
              dependency |-> dependency]}]

\* the element of a one-element set: Only({e(x) : x \in {v}}) is e(v) with v
\* computed once
Only(S) == CHOOSE x \in S : TRUE

RECURSIVE getDependenciesAt(_, _, _, _, _)
RECURSIVE ForEachDependency(_, _, _, _, _, _, _)

\* the body of the loop for the reference dep of filename; st holds the
\* results so far
ForDependency(searchConfig, fsys, filename, dep, st, depth) ==
  LET directory == PathDirname(filename)
      resolvers == LanguageConfig(searchConfig, PathExtname(filename)).resolvers
  IN  Only({
        Only({
          IF dependency = <<>> THEN Traced(st, filename, dep, depPath, dependency)
          ELSE Only({
                 IF child.err # "" THEN child
                 ELSE [child EXCEPT !.results =
                         AddResults(st.results, dependency, child.results)]
                 : child \in {getDependenciesAt(searchConfig, fsys, dependency,
                                Cached(Traced(st, filename, dep, depPath, dependency),
                                       depPath, dependency),
                                depth + 1)}})
          : dependency \in {Dependency(fsys, st.resolverCache, depPath, resolvers)}})
        : depPath \in {PathResolve(directory, dep)}})

\* the loop over the reference list of filename, from the i-th on; an error
\* thrown in the body ends it
ForEachDependency(searchConfig, fsys, filename, dependencies, i, st, depth) ==
  IF i > Len(dependencies) \/ st.err # "" THEN st
  ELSE Only({
         ForEachDependency(searchConfig, fsys, filename, dependencies, i + 1,
                           next, depth)
         : next \in {ForDependency(searchConfig, fsys, filename, dependencies[i],
                                   st, depth)}})

\* the list stored in a fresh table, the entries held before dropped
StoredAlone(st, filename, cacheKey, dependencies) ==
  [st EXCEPT !.reads = @ \cup {filename},
             !.dependencyCache = (cacheKey :> dependencies)]

\* the record after the miss of dependencyCache: the file was read and the
\* list stored
Stored(st, filename, cacheKey, dependencies) ==
  [st EXCEPT !.reads = @ \cup {filename},
             !.dependencyCache = (cacheKey :> dependencies) @@ @]

\* getDependencies( filename ) called at the given depth of the call stack
getDependenciesAt(searchConfig, fsys, filename, st, depth) ==
  IF depth > MaxStack THEN Throw(st, "RangeError")
  ELSE IF StatThrows(fsys, filename) THEN Throw(st, "ENOENT")
  ELSE
    LET parsers == LanguageConfig(searchConfig, PathExtname(filename)).parsers
        cacheKey == <<filename, fsys[filename].mtime>>
        hit == DependencyCacheHit(st.dependencyCache, cacheKey)
    IN  IF ~hit /\ fsys[filename].kind # "file" THEN Throw(st, "EISDIR")
        ELSE Only({
               Only({
                 ForEachDependency(searchConfig, fsys, filename, dependencies, 1,
                                   start, depth)
                 : start \in {[(IF hit THEN st
                                ELSE Stored(st, filename, cacheKey, dependencies))
                               EXCEPT !.results = {}]}})
               : dependencies \in
                   {IF hit THEN st.dependencyCache[cacheKey]
                    ELSE ExtractDependencies(fsys[filename].content, parsers)}})

\* a call of the function the module exports, from the top of the stack
getDependencies(searchConfig, fsys, filename, dc, rc) ==
  getDependenciesAt(searchConfig, fsys, filename,
                    [err |-> "", results |-> {}, dependencyCache |-> dc,
                     resolverCache |-> rc, reads |-> {}, trace |-> {}], 1)

(***************************************************************************)
(* The files of the modelled project and the contents they may be given    *)
(***************************************************************************)
Dir == <<SLASH, "d">>
InDir(name) == Dir \o <<SLASH>> \o name

MainJs == InDir(<<"main", DOT, "js">>)
UtilJs == InDir(<<"util", DOT, "js">>)
HelpersMjs == InDir(<<"helpers", DOT, "mjs">>)
ThemeScss == InDir(<<"theme", DOT, "scss">>)
BaseJs == InDir(<<"base", DOT, "js">>)
BaseScss == InDir(<<"base", DOT, "scss">>)
PartialBaseScss == InDir(<<US, "base", DOT, "scss">>)
NotesTxt == InDir(<<"notes", DOT, "txt">>)

FilePaths ==
  {MainJs, UtilJs, HelpersMjs, BaseJs, ThemeScss, BaseScss, PartialBaseScss, NotesTxt}

\* import x from '<ref>';
JsImport(ref) == <<"import", SP, "x", SP, "from", SP, SQ>> \o ref \o <<SQ, SEMI>>
\* @use "<ref>";
ScssUse(ref) == <<"@", "use", SP, DQ>> \o ref \o <<DQ, SEMI>>

NoStatements == <<"x", "=", "1", SEMI>>
ImportUtil == JsImport(<<DOT, SLASH, "util">>)
ImportMain == JsImport(<<DOT, SLASH, "main">>)
ImportHelpers == JsImport(<<DOT, SLASH, "helpers", DOT, "mjs">>)
ImportBase == JsImport(<<DOT, SLASH, "base">>)
ImportNotes == JsImport(<<DOT, SLASH, "notes", DOT, "txt">>)
ImportGoneAndUtil == JsImport(<<DOT, SLASH, "gone">>) \o <<NL>> \o ImportUtil
UseBase == ScssUse(<<"base">>)
UseUtilThenMainJs == ScssUse(<<"util">>) \o <<NL>> \o ScssUse(<<"main", DOT, "js">>)
TextUtilJs == <<"util", DOT, "js">>
TextWords == <<"see", SP, "util">>

\* the files that are written or deleted while the resolver is in use, and
\* the contents a write may give them
Written == {MainJs, UtilJs, ThemeScss, BaseScss, NotesTxt}
Deleted == {UtilJs, NotesTxt}
ContentsOf(p) ==
  CASE p = MainJs -> {ImportGoneAndUtil, ImportBase, ImportNotes}
    [] p = UtilJs -> {ImportHelpers, ImportMain}
    [] p = ThemeScss -> {UseBase, UseUtilThenMainJs}
    [] p = BaseScss -> {<<>>}
    [] p = NotesTxt -> {TextUtilJs, TextWords}

\* the files getDependencies is called on
Roots == {MainJs, UtilJs, ThemeScss, NotesTxt}

\* the number of changes of the file system in a behaviour
MaxChanges == 1

NoFile == [kind |-> "none", content |-> <<>>, mtime |-> 0]
File(content, mtime) == [kind |-> "file", content |-> content, mtime |-> mtime]
Directory == [kind |-> "dir", content |-> <<>>, mtime |-> 1]

(***************************************************************************)
(* State                                                                   *)
(***************************************************************************)
VARIABLES
  fs,               \* the file system
  clock,            \* the time, advanced by every change of the file system
  dependencyCache,  \* <<filename, mtimeMs>> -> reference list
  resolverCache,    \* candidate path -> resolved path
  last,             \* the latest call of getDependencies since the file system
                    \* changed, NoCall if none
  repeated,         \* the call before it was on the same root, with no change
                    \* of the file system between the two
  instance,         \* the resolver instance that made the latest call: "default"
                    \* (created with no searchConfig) or "custom"; "" if none
  alone,            \* what the custom instance would hold and return had the
                    \* default instance never been called
  unresolved,       \* the references that resolved to nothing in a call, with
                    \* the file they were found in and its modification time
  sinceWatching,    \* sinceWatching of src/index.js
  lastRun,          \* gulp's lastRun: task -> the time its last run started, 0
                    \* (undefined) if it never ran
  filtered,         \* the latest run of a task: the files its filter kept
  extracted         \* a content going through the stages of a parser list

vars == <<fs, clock, dependencyCache, resolverCache, last, repeated, instance,
          alone, unresolved, sinceWatching, lastRun, filtered, extracted>>

\* the variables of the build tasks
taskVars == <<sinceWatching, lastRun, filtered>>
\* the variables that observe the calls of the two resolver instances
instanceVars == <<instance, alone, unresolved>>

NoCall == [root |-> <<>>, err |-> "", results |-> {}, reads |-> {}, trace |-> {}]

EmptyTable == [k \in {} |-> <<>>]

Tasks == {"compileStyles", "compileScripts"}

\* no resolver instance was called yet
NoInstance ==
  /\ instance = ""
  /\ alone = [dependencyCache |-> EmptyTable, resolverCache |-> EmptyTable,
              err |-> "", results |-> {}]
  /\ unresolved = {}

\* no watcher started, no task ran
NoTask ==
  /\ sinceWatching = 0
  /\ lastRun = [task \in Tasks |-> 0]
  /\ filtered = [task |-> "", source |-> "", since |-> 0, time |-> 0, err |-> "",
                 checks |-> {}, queried |-> {}]

\* no content is going through a parser list
NoExtraction == extracted = [content |-> <<>>, parsers |-> <<>>, stage |-> 0,
                             dependencies |-> << <<>> >>]

Init ==
  /\ fs = (Dir :> Directory)
          @@ [p \in FilePaths |->
                CASE p = MainJs -> File(ImportGoneAndUtil, 1)
                  [] p = UtilJs -> File(ImportHelpers, 1)
                  [] p = HelpersMjs -> File(NoStatements, 1)
                  [] p = BaseJs -> File(NoStatements, 1)
                  [] p = ThemeScss -> File(UseBase, 1)
                  [] p = PartialBaseScss -> File(<<>>, 1)
                  [] p = NotesTxt -> File(TextUtilJs, 1)
                  [] OTHER -> NoFile]
  /\ clock = 1
  /\ dependencyCache = EmptyTable
  /\ resolverCache = EmptyTable
  /\ last = NoCall
  /\ repeated = FALSE
  /\ NoInstance
  /\ NoTask
  /\ NoExtraction

\* a file is created or its content replaced; its modification time advances
WriteFile(p, content) ==
  /\ clock <= MaxChanges
  /\ fs[p].kind = "none" \/ fs[p].content # content
  /\ clock' = clock + 1
  /\ fs' = [fs EXCEPT ![p] = File(content, clock + 1)]
  /\ last' = NoCall
  /\ repeated' = FALSE
  /\ UNCHANGED <<dependencyCache, resolverCache, instanceVars, taskVars, extracted>>

\* a file is deleted
DeleteFile(p) ==
  /\ clock <= MaxChanges
  /\ fs[p].kind = "file"
  /\ clock' = clock + 1
  /\ fs' = [fs EXCEPT ![p] = NoFile]
  /\ last' = NoCall
  /\ repeated' = FALSE
  /\ UNCHANGED <<dependencyCache, resolverCache, instanceVars, taskVars, extracted>>

\* getDependencies( root ) of the resolver created with no searchConfig
Query(root) ==
  \E r \in {getDependencies(defaultSearchConfig, fs, root,
                            dependencyCache, resolverCache)} :
      /\ dependencyCache' = r.dependencyCache
      /\ resolverCache' = r.resolverCache
      /\ last' = [root |-> root, err |-> r.err, results |-> r.results,
                  reads |-> r.reads, trace |-> r.trace]
      /\ repeated' = (last.root = root)
      /\ UNCHANGED <<fs, clock, instanceVars, taskVars, extracted>>

Next ==
  \/ \E p \in Written : \E content \in ContentsOf(p) : WriteFile(p, content)
  \/ \E p \in Deleted : DeleteFile(p)
  \/ \E root \in Roots : Query(root)

Spec == Init /\ [][Next]_vars

(***************************************************************************)
(* A project with a subdirectory, read by two resolver instances: the one  *)
(* created with no searchConfig and one created with a searchConfig of the *)
(* caller.  Both are closures of the one module, hence share the module's  *)
(* dependencyCache and resolverCache.                                      *)
(***************************************************************************)
Proj == <<SLASH, "p">>
Lib == Proj \o <<SLASH, "lib">>

AppJs == Proj \o <<SLASH, "app", DOT, "js">>
PartJs == Proj \o <<SLASH, "part", DOT, "js">>
StyleScss == Proj \o <<SLASH, "style", DOT, "scss">>
ToolJs == Lib \o <<SLASH, "tool", DOT, "js">>
LibPartJs == Lib \o <<SLASH, "part", DOT, "js">>
LookScss == Lib \o <<SLASH, "look", DOT, "scss">>
LibPartialScss == Lib \o <<SLASH, US, "part", DOT, "scss">>

ProjectPaths == {AppJs, PartJs, StyleScss, ToolJs, LibPartJs, LookScss, LibPartialScss}

\* y = '<ref>';
JsAssign(ref) == <<"y", SP, "=", SP, SQ>> \o ref \o <<SQ, SEMI>>

ImportPart == JsImport(<<DOT, SLASH, "part">>)
ImportToolAssignPart ==
  JsImport(<<DOT, SLASH, "lib", SLASH, "tool">>) \o <<NL>>
    \o JsAssign(<<DOT, SLASH, "part">>)
UsePart == ScssUse(<<"part">>)
UseLibLook == ScssUse(<<"lib", SLASH, "look">>)

\* a searchConfig given by the caller: in a .js file every quoted string that
\* is not an absolute path is a reference, and only ".js" is tried
customSearchConfig ==
  <<DOT, "js">> :> [parsers |-> <<JsUnwrap, KeepRelative>>,
                    resolvers |-> <<AppendJs>>]

\* the searchConfig in the closure of an instance
SearchConfigOf(inst) ==
  IF inst = "custom" THEN customSearchConfig ELSE defaultSearchConfig

ProjectWritten == {LibPartialScss, ToolJs, AppJs}
ProjectContentsOf(p) ==
  CASE p = LibPartialScss -> {<<>>}
    [] p = ToolJs -> {NoStatements}
    [] p = AppJs -> {ImportPart}

\* the calls made: the default instance on every root, the custom one on
\* the scripts
ProjectCalls ==
  ({"default"} \X {AppJs, ToolJs, StyleScss, LookScss})
    \cup ({"custom"} \X {AppJs, ToolJs})

InitProject ==
  /\ fs = (Proj :> Directory) @@ (Lib :> Directory)
          @@ [p \in ProjectPaths |->
                CASE p = AppJs -> File(ImportToolAssignPart, 1)
                  [] p = PartJs -> File(NoStatements, 1)
                  [] p = StyleScss -> File(UseLibLook, 1)
                  [] p = ToolJs -> File(ImportPart, 1)
                  [] p = LibPartJs -> File(NoStatements, 1)
                  [] p = LookScss -> File(UsePart, 1)
                  [] OTHER -> NoFile]
  /\ clock = 1
  /\ dependencyCache = EmptyTable
  /\ resolverCache = EmptyTable
  /\ last = NoCall
  /\ repeated = FALSE
  /\ NoInstance
  /\ NoTask
  /\ NoExtraction

\* the references of a call that resolved to nothing
Unresolved(trace) ==
  {[file |-> e.file, dep |-> e.dep, mtime |-> fs[e.file].mtime] :
     e \in {e \in trace : e.dependency = <<>>}}

\* getDependencies( root ) of the instance inst.  r is the call, a is the
\* same call on the tables only the custom instance has written
QueryWith(inst, root) ==
  \E r \in {getDependencies(SearchConfigOf(inst), fs, root,
                            dependencyCache, resolverCache)} :
  \E a \in {IF inst = "custom"
            THEN getDependencies(SearchConfigOf(inst), fs, root,
                                 alone.dependencyCache, alone.resolverCache)
            ELSE r} :
    /\ dependencyCache' = r.dependencyCache
    /\ resolverCache' = r.resolverCache
    /\ last' = [root |-> root, err |-> r.err, results |-> r.results,
                reads |-> r.reads, trace |-> r.trace]
    /\ repeated' = (last.root = root /\ instance = inst)
    /\ instance' = inst
    /\ alone' = IF inst = "custom"
                THEN [dependencyCache |-> a.dependencyCache,
                      resolverCache |-> a.resolverCache,
                      err |-> a.err, results |-> a.results]
                ELSE alone
    /\ unresolved' = IF inst = "default"
                     THEN unresolved \cup Unresolved(r.trace)
                     ELSE unresolved
    /\ UNCHANGED <<fs, clock, taskVars, extracted>>

NextProject ==
  \/ \E p \in ProjectWritten : \E content \in ProjectContentsOf(p) :
       WriteFile(p, content)
  \/ \E call \in ProjectCalls : QueryWith(call[1], call[2])

SpecProject == InitProject /\ [][NextProject]_vars

(***************************************************************************)
(* The build tasks of src/index.js.  The repository holds a second version *)
(* of that file, src/unnamed/part_000, whose checkDependencies differs:    *)
(* source is "index" or "part_000".  Date.now() is clock; gulp's lastRun   *)
(* gives the time at which the last run of a task that ended without error *)
(* started, undefined (0) if there is none.                                *)
(***************************************************************************)
Sources == {"index", "part_000"}

\* the files src() gives a task
InputsOf(task) ==
  CASE task = "compileStyles" -> <<ThemeScss>>
    [] task = "compileScripts" -> <<MainJs, UtilJs>>

\* sinceWatching taken before lastRun( task )
sinceWatchingFirst(task) == IF sinceWatching # 0 THEN sinceWatching ELSE lastRun[task]

\* { since: lastRun( task ) || sinceWatching }
sinceLastTask(task) == IF lastRun[task] # 0 THEN lastRun[task] ELSE sinceWatching

\* the own modification time of the file looked at before its dependencies
ChecksOwnTime(source) == source = "index"

\* fs.statSync( dep ) of the forEach throws
DepStatThrows(fsys, dependencies) == \E dep \in dependencies : ~Exists(fsys, dep)

\* hasChanges after the forEach
hasChanges(fsys, dependencies, since) ==
  \E dep \in dependencies : fsys[dep].mtime > since

\* the record after the callback of filter answered for file
Checked(st, file, kept) ==
  [st EXCEPT !.checks = @ \cup {[file |-> file, kept |-> kept]}]

\* the callback given to filter, called on file; st holds the two tables,
\* the answers given so far and the files getDependencies was called on
checkDependencies(source, fsys, file, since, st) ==
  IF since = 0 THEN Checked(st, file, TRUE)
  ELSE IF ChecksOwnTime(source) /\ fsys[file].mtime > since
  THEN Checked(st, file, TRUE)
  ELSE Only({
         LET called == [st EXCEPT !.dependencyCache = r.dependencyCache,
                                  !.resolverCache = r.resolverCache,
                                  !.queried = @ \cup {file}]
         IN  IF r.err # "" THEN [called EXCEPT !.err = r.err]
             ELSE IF DepStatThrows(fsys, r.results)
             THEN [called EXCEPT !.err = "ENOENT"]
             ELSE Checked(called, file, hasChanges(fsys, r.results, since))
         : r \in {getDependencies(defaultSearchConfig, fsys, file,
                                  st.dependencyCache, st.resolverCache)}})

RECURSIVE FilterFrom(_, _, _, _, _, _)
\* the files of the stream going through the filter, from the i-th on; an
\* error thrown by the callback ends the stream
FilterFrom(source, fsys, files, i, since, st) ==
  IF i > Len(files) \/ st.err # "" THEN st
  ELSE Only({
         FilterFrom(source, fsys, files, i + 1, since, next)
         : next \in {checkDependencies(source, fsys, files[i], since, st)}})

\* compileStyles or compileScripts runs
RunTask(source, task) ==
  LET since == sinceLastTask(task)
      files == SelectSeq(InputsOf(task), LAMBDA p : IsFile(fs, p))
  IN  \E out \in {FilterFrom(source, fs, files, 1, since,
                              [dependencyCache |-> dependencyCache,
                               resolverCache |-> resolverCache,
                               err |-> "", checks |-> {}, queried |-> {}])} :
      /\ dependencyCache' = out.dependencyCache
      /\ resolverCache' = out.resolverCache
      /\ filtered' = [task |-> task, source |-> source, since |-> since,
                      time |-> clock, err |-> out.err, checks |-> out.checks,
                      queried |-> out.queried]
      /\ lastRun' = IF out.err = "" THEN [lastRun EXCEPT ![task] = clock]
                    ELSE lastRun
      /\ UNCHANGED <<fs, clock, last, repeated, sinceWatching, instanceVars,
                     extracted>>

\* sinceWatching = sinceWatching || Date.now()
StartWatching ==
  /\ sinceWatching' = IF sinceWatching # 0 THEN sinceWatching ELSE clock
  /\ UNCHANGED <<fs, clock, dependencyCache, resolverCache, last, repeated,
                 lastRun, filtered, instanceVars, extracted>>

watchStyles == StartWatching
watchScripts == StartWatching

TaskWritten == {MainJs, UtilJs, ThemeScss}

NextTasks ==
  \/ \E p \in TaskWritten : \E content \in ContentsOf(p) : WriteFile(p, content)
  \/ DeleteFile(UtilJs)
  \/ watchStyles
  \/ watchScripts
  \/ \E source \in Sources : \E task \in Tasks : RunTask(source, task)

SpecTasks == Init /\ [][NextTasks]_vars

(***************************************************************************)
(* The extraction on its own: a content going through a parser list, one   *)
(* call of findDependencyReferences after the other (lines 114-120)        *)
(***************************************************************************)
\* @import '<ref>';
ScssImport(ref) == <<"@", "import", SP, SQ>> \o ref \o <<SQ, SEMI>>

AssignAbsThenPart ==
  JsAssign(<<SLASH, "abs">>) \o <<NL>> \o JsAssign(<<DOT, SLASH, "part">>)
UseThenImportAbs ==
  ScssUse(<<"base">>) \o <<NL>> \o ScssImport(<<SLASH, "abs">>)

ExtractedContents ==
  {<<>>, NoStatements, ImportGoneAndUtil, ImportToolAssignPart, AssignAbsThenPart,
   UseUtilThenMainJs, UseThenImportAbs, TextUtilJs}

ParserLists ==
  {<<>>, <<KeepRelative>>, <<JsUnwrap>>, <<JsUnwrap, KeepRelative>>,
   <<JsStatement, JsUnwrap>>, <<ScssStatement, ScssUnwrap>>,
   <<ScssStatement, ScssUnwrap, KeepRelative>>}

InitExtraction ==
  /\ \E content \in ExtractedContents : \E parsers \in ParserLists :
       extracted = [content |-> content, parsers |-> parsers, stage |-> 0,
                    dependencies |-> <<content>>]
  /\ fs = (Dir :> Directory)
  /\ clock = 1
  /\ dependencyCache = EmptyTable
  /\ resolverCache = EmptyTable
  /\ last = NoCall
  /\ repeated = FALSE
  /\ NoInstance
  /\ NoTask

\* dependencies = findDependencyReferences( dependencies, parser ) for the
\* next parser of the list
ApplyParser ==
  /\ extracted.stage < Len(extracted.parsers)
  /\ extracted' =
       [extracted EXCEPT
          !.stage = @ + 1,
          !.dependencies =
            findDependencyReferences(@, extracted.parsers[extracted.stage + 1])]
  /\ UNCHANGED <<fs, clock, dependencyCache, resolverCache, last, repeated,
                 instanceVars, taskVars>>

NextExtraction == ApplyParser

SpecExtraction == InitExtraction /\ [][NextExtraction]_vars

(***************************************************************************)
(* What the claims speak of: the references of a file, the file a          *)
(* reference resolves to on disk, the files reachable through references   *)
(***************************************************************************)
Range(s) == {s[i] : i \in 1..Len(s)}

Registered(f) == PathExtname(f) \in DOMAIN defaultSearchConfig

\* the references the registered pipeline of f's extension extracts from
\* the content f has now; none when the extension is not registered
References(f) ==
  IF IsFile(fs, f) /\ Registered(f)
  THEN Range(ExtractDependencies(fs[f].content,
                                 defaultSearchConfig[PathExtname(f)].parsers))
  ELSE {}

\* the candidate path of a reference found in f
Candidate(f, dep) == PathResolve(PathDirname(f), dep)

\* the candidate followed by the outputs of the resolver steps of f's extension
Attempts(f, dep) ==
  LET resolvers == LanguageConfig(defaultSearchConfig, PathExtname(f)).resolvers
  IN  <<Candidate(f, dep)>>
        \o [i \in 1..Len(resolvers) |-> CallResolver(resolvers[i], Candidate(f, dep))]

\* the first attempt that is a regular file now, "" if none is
OnDisk(f, dep) ==
  LET a == Attempts(f, dep)
      I == {i \in 1..Len(a) : IsFile(fs, a[i])}
  IN  IF I = {} THEN <<>> ELSE a[Min(I)]

\* the files the references of f resolve to on disk
Targets(f) == {OnDisk(f, dep) : dep \in References(f)} \ {<<>>}

RECURSIVE ReachableFrom(_)
\* the files reachable from the files of F through zero or more references
ReachableFrom(F) ==
  LET G == F \cup UNION {Targets(f) : f \in F}
  IN  IF G = F THEN F ELSE ReachableFrom(G)

\* the files reachable from root through one or more references
Closure(root) == ReachableFrom(Targets(root))

Acyclic == \A f \in FilePaths : f \notin Closure(f)

Called == last.root # <<>>
Returned == Called /\ last.err = ""

(***************************************************************************)
(* Claims                                                                  *)
(***************************************************************************)

\* C1: when the root references a file that references the root back, the
\* call returns, and the returned set contains that file.
C1_CycleTermination ==
  \A b \in FilePaths :
    (Called /\ b # last.root /\ b \in Targets(last.root) /\ last.root \in Targets(b))
      => (last.err = "" /\ b \in last.results)

\* C2: a call that returns, returns every file at the end of a chain of
\* references starting at the root, each resolved on disk.
C2_Transitivity ==
  Returned => Closure(last.root) \subseteq last.results

\* C3: on an acyclic reference graph, a call that returns, returns exactly
\* the files reachable from the root through one or more references, and not
\* the root.
C3_Exactness ==
  (Returned /\ Acyclic)
    => (last.results = Closure(last.root) /\ last.root \notin last.results)

\* the reference list cached for an earlier modification time of f
OlderLists(f) ==
  {dependencyCache[k] : k \in {k \in DOMAIN dependencyCache :
                                 k[1] = f /\ k[2] < fs[f].mtime}}

\* C4: when a file that was queried and then edited is the root of a call
\* that returns, or in the set it returns, the file an added reference
\* resolves to is in the returned set, and the file of a removed reference is
\* not, unless other references reach it.
C4_RecomputeOnEdit ==
  \A f \in FilePaths : \A old \in OlderLists(f) :
    (Returned /\ IsFile(fs, f) /\ (f = last.root \/ f \in last.results))
      => /\ \A dep \in References(f) \ Range(old) :
              OnDisk(f, dep) # <<>> => OnDisk(f, dep) \in last.results
         /\ \A dep \in Range(old) \ References(f) :
              (OnDisk(f, dep) # <<>> /\ OnDisk(f, dep) \notin Closure(last.root))
                => OnDisk(f, dep) \notin last.results

\* C5: a call on the root of the call before it, with no change of the file
\* system between the two, ends as that call did (the same set returned, or
\* the same error) and reads no file.
C5_Idempotence ==
  [][(Called /\ last'.root = last.root /\ fs' = fs)
       => (last'.err = last.err /\ last'.results = last.results
           /\ last'.reads = {})]_vars

C5_Witness ==
  /\ repeated
  /\ Returned
  /\ last.root = MainJs
  /\ HelpersMjs \in last.results
  /\ <<HelpersMjs, fs[HelpersMjs].mtime>> \in DOMAIN dependencyCache
  /\ dependencyCache[<<HelpersMjs, fs[HelpersMjs].mtime>>] = <<>>
  /\ last.reads = {}

\* C6: every reference processed by a call resolved to the first of its
\* attempts (the candidate, then the resolver steps in order) that is a
\* regular file.
C6_ResolutionPriority ==
  \A e \in last.trace : e.dependency = OnDisk(e.file, e.dep)

\* C7: a call on a file whose extension is not registered returns the empty
\* set.
C7_UnregisteredExtension ==
  (Called /\ IsFile(fs, last.root) /\ ~Registered(last.root))
    => (last.err = "" /\ last.results = {})

\* C8: a reference none of whose attempts is a regular file is skipped: it
\* resolves to nothing, so that nothing is added to the result and nothing is
\* recursed into on its behalf.
C8_GracefulMiss ==
  \A e \in last.trace : OnDisk(e.file, e.dep) = <<>> => e.dependency = <<>>

\* C9: a call on a root that is a regular file returns (stated for acyclic
\* reference graphs, where no call can recurse without bound).
C9_FailsOnlyOnRoot ==
  (Called /\ IsFile(fs, last.root) /\ Acyclic) => last.err = ""

\* C10: a call on a root that does not exist raises the error of statSync.
C10_RootNotFound ==
  (Called /\ ~Exists(fs, last.root)) => last.err = "ENOENT"

\* the root was queried before it was deleted: the tables hold entries for it
C10_Witness ==
  /\ Called
  /\ ~Exists(fs, last.root)
  /\ ~Registered(last.root)
  /\ \E k \in DOMAIN dependencyCache : k[1] = last.root
  /\ last.err = "ENOENT"

\* C11: a reference that resolved to nothing in a call of the default
\* instance, found in a file unchanged since, one of whose attempts is a
\* regular file now: a call that returns and walks that file has the file
\* the reference resolves to on disk in its result (stated for the default
\* instance used alone).
C11_NegativeNotCached ==
  \A u \in unresolved :
    (/\ Returned
     /\ instance = "default"
     /\ alone.dependencyCache = EmptyTable
     /\ IsFile(fs, u.file)
     /\ fs[u.file].mtime = u.mtime
     /\ u.file = last.root \/ u.file \in last.results
     /\ OnDisk(u.file, u.dep) # <<>>)
      => OnDisk(u.file, u.dep) \in last.results

\* C12: every path in the set a call returns is a regular file when the call
\* returns, whatever files were created and deleted between the calls.
C12_ClosureOfFiles ==
  Returned => \A p \in last.results : IsFile(fs, p)

\* a call after a change of the file system whose references were all
\* answered by the two tables
C12_Witness ==
  /\ Returned
  /\ clock > 1
  /\ last.root = MainJs
  /\ UtilJs \in last.results
  /\ last.reads = {}
  /\ \A e \in last.trace : ResolverCacheHit(resolverCache, Candidate(e.file, e.dep))

\* the latest run of a task ended without error, had a reference timestamp,
\* and no file changed since
Filtered ==
  filtered.task # "" /\ filtered.err = "" /\ filtered.time = clock
    /\ filtered.since # 0

\* dependenciesOf(file) of the resolver the tasks use
DependenciesOf(file) ==
  getDependencies(defaultSearchConfig, fs, file, dependencyCache,
                  resolverCache).results

\* C13: the filter of a task keeps a file if and only if the modification
\* time of the file exceeds the reference timestamp, or that of a path in
\* dependenciesOf(file) does.
C13_Staleness ==
  Filtered =>
    \A c \in filtered.checks :
      c.kept <=> (\/ fs[c.file].mtime > filtered.since
                  \/ \E dep \in DependenciesOf(c.file) :
                       fs[dep].mtime > filtered.since)

\* C14: the set the custom instance returns is the set it returns when the
\* default instance was never called (alone holds that run, made on tables
\* that only the custom instance has written).
C14_RegistryIsolation ==
  (Returned /\ instance = "custom" /\ alone.err = "")
    => last.results = alone.results

Instances == {"default", "custom"}

\* the reference list the instance inst computes from the content f has now
ReferencesWith(inst, f) ==
  ExtractDependencies(fs[f].content,
                      LanguageConfig(SearchConfigOf(inst), PathExtname(f)).parsers)

\* the path the instance inst resolves the candidate of a reference of f to
ResolvedWith(inst, f, candidate) ==
  resolveDependencyReference(fs, candidate,
                             LanguageConfig(SearchConfigOf(inst), PathExtname(f)).resolvers)

\* the list stored under a key of dependencyCache is the list either instance
\* computes from the file
ExtractionDetermined(dc, k) ==
  \A inst \in Instances : dc[k] = ReferencesWith(inst, k[1])

\* the path stored under a key of resolverCache is the path that every file
\* of the project with a reference to that candidate resolves it to, through
\* either instance
ResolutionDetermined(rc, k) ==
  \A inst \in Instances : \A f \in {f \in ProjectPaths : IsFile(fs, f)} :
    \A dep \in Range(ReferencesWith(inst, f)) :
      Candidate(f, dep) = k => rc[k] = ResolvedWith(inst, f, k)

\* C15: the value a call stores under a new key of either table is the value
\* that any call reaching the key computes on the same file system, from a
\* file of any extension and through either instance.
C15_ValueDeterminedByKey ==
  [][fs' = fs =>
       /\ \A k \in DOMAIN dependencyCache' \ DOMAIN dependencyCache :
            ExtractionDetermined(dependencyCache', k)
       /\ \A k \in DOMAIN resolverCache' \ DOMAIN resolverCache :
            ResolutionDetermined(resolverCache', k)]_vars

\* every entry of the table before is in the table after, unchanged
Kept(before, after) ==
  \A k \in DOMAIN before : k \in DOMAIN after /\ after[k] = before[k]

\* C16: a step removes no key of dependencyCache or resolverCache and changes
\* no value; resolverCache holds no entry for a reference that resolved to
\* nothing; a call that raises because its root does not exist leaves both
\* tables as they were.
C16_AppendOnly ==
  [][/\ Kept(dependencyCache, dependencyCache')
     /\ Kept(resolverCache, resolverCache')
     /\ \A k \in DOMAIN resolverCache' : resolverCache'[k] # <<>>
     /\ (fs' = fs /\ last'.root # <<>> /\ ~Exists(fs, last'.root))
          => (dependencyCache' = dependencyCache /\ resolverCache' = resolverCache)]_vars

\* a call on the deleted util.js raised, and the entries stored for util.js
\* before it was deleted are still there
C16_Witness ==
  /\ last.root = UtilJs
  /\ last.err = "ENOENT"
  /\ ~Exists(fs, UtilJs)
  /\ <<UtilJs, 1>> \in DOMAIN dependencyCache
  /\ <<MainJs, 1>> \in DOMAIN dependencyCache
  /\ ResolverCacheHit(resolverCache, Candidate(MainJs, <<DOT, SLASH, "util">>))
  /\ resolverCache[Candidate(MainJs, <<DOT, SLASH, "util">>)] = UtilJs

RECURSIVE Flatten(_)
\* the lists of a list, one after the other
Flatten(lists) ==
  IF lists = <<>> THEN <<>> ELSE Head(lists) \o Flatten(Tail(lists))

RECURSIVE MatchesFrom(_, _, _)
\* the successive matches of a pattern in s, each sought after the end of
\* the one before
MatchesFrom(parser, s, from) ==
  LET m == PatternExec(parser, s, from)
  IN  IF m = NoMatch THEN <<>> ELSE <<m>> \o MatchesFrom(parser, s, m.end + 1)

\* what a stage emits for one input
Emitted(parser, input) ==
  IF parser \in {KeepRelative}
  THEN LET output == CallParser(parser, input)
       IN  IF output = <<>> THEN <<>> ELSE <<output>>
  ELSE LET matches == MatchesFrom(parser, input, 1)
       IN  Flatten([j \in 1..Len(matches) |->
                      SelectSeq(matches[j].groups, LAMBDA g : Len(g) > 0)])

\* what a stage emits for a list of inputs
StageOutput(inputs, parser) ==
  Flatten([i \in 1..Len(inputs) |-> Emitted(parser, inputs[i])])

RECURSIVE AfterStages(_, _, _)
\* the list after the first n stages, the whole output of a stage being the
\* input of the next
AfterStages(content, parsers, n) ==
  IF n = 0 THEN <<content>>
  ELSE StageOutput(AfterStages(content, parsers, n - 1), parsers[n])

\* C17: after n parsers were applied the list is the output of the n-th
\* stage on the whole output of the stage before, the first input being the
\* one-element list of the content; a pattern stage emits the non-empty
\* groups of every successive match of every input in order, a function
\* stage its truthy outputs; the list after the last parser is the reference
\* list getDependencies stores.
C17_ExtractionPipeline ==
  /\ extracted.dependencies =
       AfterStages(extracted.content, extracted.parsers, extracted.stage)
  /\ extracted.stage = Len(extracted.parsers)
       => extracted.dependencies =
            ExtractDependencies(extracted.content, extracted.parsers)

\* a pattern stage matched twice in the content, and the function stage after
\* it dropped the first of the two references
C17_Witness ==
  /\ extracted.content = AssignAbsThenPart
  /\ extracted.parsers = <<JsUnwrap, KeepRelative>>
  /\ extracted.stage = 2
  /\ extracted.dependencies = << <<DOT, SLASH, "part">> >>

\* C18: a reference found in a file other than the root of the call has the
\* candidate path made of the directory of that file and the reference, and
\* resolves to what the resolver steps of that file's extension give for the
\* candidate.
C18_RelativeToContainingFile ==
  \A e \in last.trace :
    e.file # last.root =>
      /\ e.depPath = PathResolve(PathDirname(e.file), e.dep)
      /\ e.dependency = ResolvedWith(instance, e.file, e.depPath)

\* a task ran in the step
RunStep == lastRun' # lastRun \/ filtered' # filtered

\* C19: a watcher that starts leaves a sinceWatching that is set as it is,
\* and sets one that is not to the time, which is not 0;
\* the reference timestamp of a run is the last run time of its task if the
\* task has run, else sinceWatching; it is 0 exactly when the task never ran
\* and no watcher started, and the filter then keeps every file of the task
\* and calls getDependencies on none.
C19_ReferenceTimestamp ==
  [][/\ sinceWatching # 0 => sinceWatching' = sinceWatching
     /\ sinceWatching' # sinceWatching => (sinceWatching' = clock /\ clock # 0)
     /\ RunStep =>
          LET task == filtered'.task
          IN  /\ filtered'.since =
                   IF lastRun[task] # 0 THEN lastRun[task] ELSE sinceWatching
              /\ filtered'.since = 0 <=> (lastRun[task] = 0 /\ sinceWatching = 0)
              /\ filtered'.since = 0 =>
                   /\ filtered'.err = ""
                   /\ filtered'.checks =
                        {[file |-> f, kept |-> TRUE] :
                           f \in {f \in Range(InputsOf(task)) : IsFile(fs, f)}}
                   /\ filtered'.queried = {}
                   /\ dependencyCache' = dependencyCache
                   /\ resolverCache' = resolverCache]_vars

\* compileScripts ran with no reference timestamp and kept both scripts; a
\* watcher started after it, and a file was written since
C19_Witness ==
  /\ filtered.task = "compileScripts"
  /\ filtered.since = 0
  /\ filtered.checks = {[file |-> MainJs, kept |-> TRUE], [file |-> UtilJs, kept |-> TRUE]}
  /\ filtered.queried = {}
  /\ lastRun["compileScripts"] = 1
  /\ sinceWatching = 2

====
